---- MODULE Spec2Model ----
(***************************************************************************)
(* A model of SailhouseClient.subscribe (src/src/sailhouse/client.py), the *)
(* polling loop of the sailhouse Python SDK, run as one asyncio task.      *)
(*                                                                         *)
(* The loop is synchronous Python between its suspension points.  It can   *)
(* be suspended in exactly two places: inside `await handler(event)` when  *)
(* the handler itself awaits something, and in `await asyncio.sleep(..)`.  *)
(* `await self.get_events(..)` never suspends: get_events has no await in  *)
(* its body (it calls the blocking requests session), and on_error is      *)
(* called, not awaited.  A cancellation request (Task.cancel) is turned    *)
(* into a CancelledError raised at the suspension point the task is in, or *)
(* next reaches; CancelledError is a BaseException, so `except Exception`  *)
(* does not catch it.                                                      *)
(***************************************************************************)
EXTENDS Integers, Sequences, FiniteSets, TLC

\* ------------------------------------------------------------------ bounds

\* Longest list of events one get_events response carries.
MaxBatch == 2
\* Largest polling_interval, in ticks of the event loop's clock.
MaxInterval == 1
\* The observers' counters saturate here, so that the loop itself is never
\* stopped by a bound.
MaxCount == 2

\* ----------------------------------------------------------- value domains

EventIds == {"1", "2"}

Batches == UNION {[1..n -> EventIds] : n \in 0..MaxBatch}

\* The HTTP statuses the server answers the events endpoint with.
Statuses == {200, 204, 400}

\* What session.get returns: a status, and (for 200) the body's events.
Responses ==
    {[status |-> 200, events |-> b] : b \in Batches}
        \cup {[status |-> s, events |-> <<>>] : s \in Statuses \ {200}}

\* The statuses the server answers a POST (publish, acknowledge) with.
PostStatuses == {200, 201, 204, 400}

Topics == {"test-topic", "other-topic"}
Subscriptions == {"test-sub", "other-sub"}
Tokens == {"test-token", "other-token"}

\* SailhouseClient.BASE_URL, line 44.
BASE_URL == "https://api.sailhouse.dev"

\* The arguments of SailhouseClient(token, timeout, base_url), lines 46-51;
\* timeout in seconds, base_url "None" when not given.
CtorArgs ==
    [token : Tokens, timeout : {5, 30}, base_url : {"None", "http://localhost:8080"}]

\* The methods the class SailhouseClient defines, lines 43-169.
Methods == {"get_events", "publish", "acknowledge_message", "subscribe"}

\* An Event (lines 15-21) is kept as its id and the pair it is tagged with;
\* its data is an opaque payload no method here reads.
Events == [id : EventIds, topic : Topics, subscription : Subscriptions]
NoEvent == [id |-> "none", topic |-> "none", subscription |-> "none"]

\* The handlers tried: one that acknowledges no event, and one that
\* acknowledges event "1" and no other.
HandlerPolicies == {{}, {"1"}}

\* ------------------------------------------------------------------- state

VARIABLES
    pc,                 \* where the subscribe coroutine is
    exit_on_error,      \* subscribe's keyword argument
    on_error,           \* "None" or "callback"
    polling_interval,   \* subscribe's keyword argument, in ticks
    events,             \* what is left of events.events in the for loop
    event,              \* the event whose handler is in flight, or "none"
    remaining,          \* ticks left of the asyncio.sleep in progress
    cancel,             \* "none", "pending" (requested), "delivered"
    \* observers: they record what happened and guard nothing
    handlerCalls,       \* handler invocations so far (saturating)
    failures,           \* iterations that entered the except clause (saturating)
    errCalls,           \* on_error invocations so far (saturating)
    iterHandler,        \* handler invocations since the last get_events call
    iterErr,            \* on_error invocations since the last get_events call
    iterFailed,         \* the except clause was entered since the last get_events call
    waits,              \* sleeps completed since the last get_events call
    slept,              \* ticks slept since the last get_events call
    lastFetch,          \* the server's last answer: see Answer
    allAbsent,          \* every get_events call so far returned no event
    cancelAt,           \* the pc at which cancellation was requested, or "none"
    pulledAfterCancel,  \* get_events was called after cancellation was requested
    handlerAborted,     \* a CancelledError left an in-flight handler
    handlerAcks,        \* the handler argument: the ids of the events it acknowledges
    fetched,            \* observer: the events of the last get_events answer
    dispatched,         \* observer: the events handed to the handler since, in order
    acks,               \* observer: the ids the task has sent an acknowledge for
    peerTick,           \* observer: flips each time another task of the loop runs
    \* the client object and its caller
    token,              \* self.token
    timeout,            \* self.timeout
    base_url,           \* self.base_url
    auth,               \* self.session.headers["Authorization"]
    ctor,               \* observer: the arguments the client was constructed with
    held,               \* an Event the caller got from the client, or NoEvent
    last                \* observer: the caller's last call and how it ended

cfg == <<exit_on_error, on_error, polling_interval, handlerAcks>>
batch == <<fetched, dispatched>>
loop == <<pc, events, event, remaining>>
counts == <<handlerCalls, failures, errCalls>>
iter == <<iterHandler, iterErr, iterFailed, waits, slept, lastFetch, allAbsent>>
cobs == <<cancelAt, pulledAfterCancel, handlerAborted>>
client == <<token, timeout, base_url, auth, ctor>>
cli == <<client, held, last>>
vars == <<cfg, loop, cancel, counts, iter, cobs, batch, acks, peerTick, cli>>

Inc(n) == IF n < MaxCount THEN n + 1 ELSE n

Stopped == {"returned", "raised", "cancelled"}
Suspended == {"idle", "handler", "sleep"}

\* What the server answered to a get_events call, as the observers record it:
\* a status other than 200, a 200 with no event, or a 200 with events.
\* "fault" is a call that got no answer and "none" is no call yet.
Answer(r) ==
    IF r.status # 200 THEN "non200"
    ELSE IF r.events = <<>> THEN "empty" ELSE "events"

\* ----------------------------------------------------- the code's decisions

\* A get_events that takes an empty list for a failure.
GetEventsRaises_EmptyToo(r) == r.status # 200 \/ r.events = <<>>

\* get_events, line 82: any status but 200 raises SailhouseError.
GetEventsRaises(r) == r.status # 200

\* A bare `except:`, which catches CancelledError too.
Caught_Bare(exc) == exc \in {"Exception", "CancelledError"}

\* line 163: `except Exception` catches Exception and its subclasses,
\* not CancelledError (a BaseException).
Caught(exc) == exc = "Exception"

\* A loop that reports an error only when it is going to keep running.
CallsOnError_OnlyWhenContinuing == on_error # "None" /\ ~exit_on_error

\* line 164: `if on_error:`
CallsOnError == on_error # "None"

\* A loop that sleeps half the interval (integer division).
SleepDelay_Halved == polling_interval \div 2

\* line 162: the delay handed to asyncio.sleep
SleepDelay == polling_interval

\* A publish that takes any of 200 and 201 for success.
PublishRaises_Accepts200(status) == status \notin {200, 201}

\* publish, line 127: any status but 201 raises SailhouseError.
PublishRaises(status) == status # 201

\* An acknowledge_message that takes only 200 for success.
AcknowledgeRaises_Only200(status) == status # 200

\* acknowledge_message, line 142: any status but 200 and 204 raises.
AcknowledgeRaises(status) == status \notin {200, 204}

\* lines 79, 113, 139: every URL is built from the class's BASE_URL.
UrlBase == BASE_URL

\* Event.ack, lines 27-33: what the event asks its client to acknowledge.
AckTarget(ev) == [topic |-> ev.topic, subscription |-> ev.subscription, id |-> ev.id]

\* __init__, lines 52-59.
Constructed(a) ==
    /\ ctor = a
    /\ token = a.token
    /\ timeout = a.timeout
    /\ base_url = (IF a.base_url = "None" THEN BASE_URL ELSE a.base_url)
    /\ auth = a.token

\* No call made yet.
NoCall ==
    [op |-> "none", topic |-> "none", subscription |-> "none", id |-> "none",
     status |-> <<>>, base |-> "none", sent |-> 0, raised |-> "none",
     errStatus |-> <<>>, result |-> "none"]

\* A loop that takes the events of a list from its end.
NextEvent_Last(evs) == evs[Len(evs)]

\* line 160: `for event in events.events` takes the events in list order.
NextEvent(evs) == Head(evs)

\* A loop that starts the handler and goes on without awaiting it.
WhileHandlerSuspended_GoesOn == "for"

\* line 161: `await handler(event)`: while the handler is suspended the loop
\* is suspended in it.
WhileHandlerSuspended == "handler"

\* A loop that acknowledges each event once its handler was called.
LoopAcks_Auto(e) == {e}

\* lines 157-168: the loop itself calls neither acknowledge_message nor
\* event.ack.
LoopAcks(e) == {}

\* A loop that stops on a failed fetch only, not on a failed handler.
AfterExcept_FetchOnly ==
    IF exit_on_error /\ lastFetch \in {"non200", "fault"} THEN "returned" ELSE "fetch"

\* lines 166-168: after the except clause, break or continue
AfterExcept == IF exit_on_error THEN "returned" ELSE "fetch"

\* An exception of class exc raised inside the try block (lines 158-162).
RaiseInTry(exc) ==
    IF Caught(exc)
    THEN /\ pc' = "except"
         /\ failures' = Inc(failures)
         /\ iterFailed' = TRUE
    ELSE /\ pc' = "cancelled"
         /\ UNCHANGED <<failures, iterFailed>>

\* ------------------------------------------------------------------ actions

\* subscribe(topic, subscription, handler, ...) has been called and its task
\* created, with any of the keyword arguments.
LoopCreated ==
    /\ pc = "idle"
    /\ exit_on_error \in BOOLEAN
    /\ on_error \in {"None", "callback"}
    /\ polling_interval \in 0..MaxInterval
    /\ events = <<>>
    /\ event = "none"
    /\ remaining = 0
    /\ cancel = "none"
    /\ handlerCalls = 0 /\ failures = 0 /\ errCalls = 0
    /\ iterHandler = 0 /\ iterErr = 0 /\ iterFailed = FALSE
    /\ waits = 0 /\ slept = 0
    /\ lastFetch = "none" /\ allAbsent = TRUE
    /\ cancelAt = "none" /\ pulledAfterCancel = FALSE /\ handlerAborted = FALSE
    /\ handlerAcks \in HandlerPolicies
    /\ fetched = <<>> /\ dispatched = <<>>
    /\ acks = {}
    /\ peerTick = 0

\* The loop's runs: a client constructed as the tests construct it
\* (SailhouseClient(token="test-token")) and subscribe called on it.
Init ==
    /\ LoopCreated
    /\ Constructed([token |-> "test-token", timeout |-> 5, base_url |-> "None"])
    /\ held = NoEvent
    /\ last = NoCall

\* The task's first step: the coroutine runs to `while True`.
Start ==
    /\ pc = "idle"
    /\ cancel = "none"
    /\ pc' = "fetch"
    /\ UNCHANGED <<batch, acks, peerTick, cli, cfg, events, event, remaining, cancel, counts, iter, cobs>>

\* line 159, with get_events (lines 79-102) run to its end: it never suspends.
Fetch ==
    /\ pc = "fetch"
    /\ \/ \E r \in Responses :
            /\ IF GetEventsRaises(r)
               THEN /\ RaiseInTry("Exception")
                    /\ events' = <<>>
                    /\ fetched' = <<>>
               ELSE /\ pc' = "for"
                    /\ events' = r.events
                    /\ fetched' = r.events
                    /\ iterFailed' = FALSE
                    /\ UNCHANGED failures
            /\ lastFetch' = Answer(r)
            /\ allAbsent' = (allAbsent /\ Answer(r) = "empty")
       \/ \* session.get itself raises (connection error, timeout)
          /\ RaiseInTry("Exception")
          /\ events' = <<>>
          /\ fetched' = <<>>
          /\ lastFetch' = "fault"
          /\ allAbsent' = FALSE
    /\ iterHandler' = 0 /\ iterErr' = 0 /\ waits' = 0 /\ slept' = 0
    /\ dispatched' = <<>>
    /\ pulledAfterCancel' = (pulledAfterCancel \/ cancel # "none")
    /\ UNCHANGED <<acks, peerTick, cli, cfg, event, remaining, cancel, handlerCalls, errCalls,
                   cancelAt, handlerAborted>>

\* What a run of the handler on event e adds to the acknowledges sent: the
\* handler's own event.ack(), if it acknowledges e and gets that far, and
\* whatever the loop sends.
AcksAfter(e) ==
    {acks \cup a \cup LoopAcks(e) : a \in SUBSET ({e} \cap handlerAcks)}

\* lines 160-161: the next event of the list is handed to the handler, which
\* returns or raises without suspending, or suspends at an await of its own.
Dispatch ==
    /\ pc = "for"
    /\ events # <<>>
    /\ events' = Tail(events)
    /\ dispatched' = Append(dispatched, NextEvent(events))
    /\ handlerCalls' = Inc(handlerCalls)
    /\ iterHandler' = iterHandler + 1
    /\ \/ /\ pc' = "for"
          /\ acks' \in AcksAfter(NextEvent(events))
          /\ UNCHANGED <<event, failures, iterFailed>>
       \/ /\ RaiseInTry("Exception")
          /\ acks' \in AcksAfter(NextEvent(events))
          /\ UNCHANGED event
       \/ /\ pc' = WhileHandlerSuspended
          /\ event' = NextEvent(events)
          /\ acks' \in {acks \cup a : a \in SUBSET ({NextEvent(events)} \cap handlerAcks)}
          /\ UNCHANGED <<failures, iterFailed>>
    /\ UNCHANGED <<fetched, peerTick, cli, cfg, remaining, cancel, errCalls, iterErr, waits, slept,
                   lastFetch, allAbsent, cobs>>

\* line 161: a suspended handler is resumed and returns or raises.
HandlerResume ==
    /\ pc = "handler"
    /\ cancel # "pending"
    /\ event' = "none"
    /\ acks' \in AcksAfter(event)
    /\ \/ /\ pc' = "for"
          /\ UNCHANGED <<failures, iterFailed>>
       \/ RaiseInTry("Exception")
    /\ UNCHANGED <<batch, peerTick, cli, cfg, events, remaining, cancel, handlerCalls, errCalls,
                   iterHandler, iterErr, waits, slept, lastFetch, allAbsent, cobs>>

\* line 162: the list is exhausted and the loop suspends in asyncio.sleep.
Sleep ==
    /\ pc = "for"
    /\ events = <<>>
    /\ pc' = "sleep"
    /\ remaining' = SleepDelay
    /\ UNCHANGED <<batch, acks, peerTick, cli, cfg, events, event, cancel, counts, iter, cobs>>

\* The event loop's clock advances while the task sleeps.
Tick ==
    /\ pc = "sleep"
    /\ remaining > 0
    /\ remaining' = remaining - 1
    /\ slept' = slept + 1
    /\ UNCHANGED <<batch, acks, peerTick, cli, cfg, pc, events, event, cancel, counts, iterHandler, iterErr,
                   iterFailed, waits, lastFetch, allAbsent, cobs>>

\* line 162 returns: back to `while True`.
Wake ==
    /\ pc = "sleep"
    /\ remaining = 0
    /\ cancel # "pending"
    /\ pc' = "fetch"
    /\ waits' = waits + 1
    /\ UNCHANGED <<batch, acks, peerTick, cli, cfg, events, event, remaining, cancel, counts, iterHandler,
                   iterErr, iterFailed, slept, lastFetch, allAbsent, cobs>>

\* lines 163-168, synchronous: on_error is called if set and may itself
\* raise, which leaves subscribe; otherwise break or continue.
Except ==
    /\ pc = "except"
    /\ IF CallsOnError
       THEN /\ errCalls' = Inc(errCalls)
            /\ iterErr' = iterErr + 1
            /\ \/ pc' = AfterExcept
               \/ pc' = "raised"
       ELSE /\ pc' = AfterExcept
            /\ UNCHANGED <<errCalls, iterErr>>
    /\ UNCHANGED <<batch, acks, peerTick, cli, cfg, events, event, remaining, cancel, handlerCalls, failures,
                   iterHandler, iterFailed, waits, slept, lastFetch, allAbsent, cobs>>

\* Task.cancel(), by whoever holds the task: another task, a callback run by
\* the loop, or the handler or on_error callback themselves.
CancelRequest ==
    /\ cancel = "none"
    /\ pc \notin Stopped
    /\ cancel' = "pending"
    /\ cancelAt' = pc
    /\ UNCHANGED <<batch, acks, peerTick, cli, cfg, loop, counts, iter, pulledAfterCancel, handlerAborted>>

\* The pending cancellation is raised as CancelledError where the task is
\* suspended.  Before the first step and in asyncio.sleep it leaves the
\* coroutine; in a handler it is raised at the handler's await, and the
\* handler lets it through, or suppresses it and returns, or raises another
\* exception in its place.
CancelDeliver ==
    /\ cancel = "pending"
    /\ pc \in Suspended
    /\ cancel' = "delivered"
    /\ event' = "none"
    /\ \/ /\ RaiseInTry("CancelledError")
          /\ handlerAborted' = (pc = "handler")
       \/ /\ pc = "handler"
          /\ pc' = "for"
          /\ UNCHANGED <<failures, iterFailed, handlerAborted>>
       \/ /\ pc = "handler"
          /\ RaiseInTry("Exception")
          /\ UNCHANGED handlerAborted
    /\ UNCHANGED <<batch, acks, peerTick, cli, cfg, events, remaining, handlerCalls, errCalls, iterHandler,
                   iterErr, waits, slept, lastFetch, allAbsent, cancelAt,
                   pulledAfterCancel>>

\* --------------------------------------------- the client's other methods

sub == <<cfg, loop, cancel, counts, iter, cobs, batch, acks, peerTick>>

\* The record of a call that sent one request to UrlBase and got status st;
\* the SailhouseError it raises names the status (lines 84, 129, 144).
Sent(op, t, sb, id, st, raises, result) ==
    [op |-> op, topic |-> t, subscription |-> sb, id |-> id, status |-> <<st>>,
     base |-> UrlBase, sent |-> 1,
     raised |-> (IF raises THEN "SailhouseError" ELSE "none"),
     errStatus |-> (IF raises THEN <<st>> ELSE <<>>),
     result |-> (IF raises THEN "none" ELSE result)]

\* client.pull(topic, subscription), as the tests call it (client_test.py
\* lines 152, 164, 172): SailhouseClient defines no pull, so the call raises
\* AttributeError and no request is sent, whatever the server would answer.
PullCall ==
    /\ "pull" \notin Methods
    /\ \E t \in Topics, sb \in Subscriptions, st \in Statuses :
          last' = [op |-> "pull", topic |-> t, subscription |-> sb, id |-> "none",
                   status |-> <<st>>, base |-> "none", sent |-> 0,
                   raised |-> "AttributeError", errStatus |-> <<>>,
                   result |-> "none"]
    /\ UNCHANGED <<sub, client, held>>

\* get_events(topic, subscription), lines 61-102, called directly; the
\* caller keeps one of the events returned, if any.
GetEventsCall ==
    /\ \E t \in Topics, sb \in Subscriptions, r \in Responses :
          /\ last' = Sent("get_events", t, sb, "none", r.status,
                          GetEventsRaises(r), "events")
          /\ IF GetEventsRaises(r) \/ r.events = <<>>
             THEN UNCHANGED held
             ELSE \E i \in 1..Len(r.events) :
                     held' = [id |-> r.events[i], topic |-> t, subscription |-> sb]
    /\ UNCHANGED <<sub, client>>

\* publish(topic, data, ...), lines 104-130.
PublishCall ==
    /\ \E t \in Topics, st \in PostStatuses :
          last' = Sent("publish", t, "none", "none", st, PublishRaises(st), "ok")
    /\ UNCHANGED <<sub, client, held>>

\* acknowledge_message(topic, subscription, event_id), lines 132-144.
AcknowledgeCall ==
    /\ \E t \in Topics, sb \in Subscriptions, id \in EventIds, st \in PostStatuses :
          last' = Sent("acknowledge_message", t, sb, id, st,
                       AcknowledgeRaises(st), "ok")
    /\ UNCHANGED <<sub, client, held>>

\* event.ack() on the event the caller holds, lines 27-33: one
\* acknowledge_message call for AckTarget(event).
EventAckCall ==
    /\ held # NoEvent
    /\ \E st \in PostStatuses :
          last' = Sent("ack", AckTarget(held).topic, AckTarget(held).subscription,
                       AckTarget(held).id, st, AcknowledgeRaises(st), "ok")
    /\ UNCHANGED <<sub, client, held>>

\* A client constructed with any arguments, and the calls made on it; the
\* subscribe task (here with its default arguments) never runs.
ClientInit ==
    /\ LoopCreated
    /\ ~exit_on_error /\ on_error = "None" /\ polling_interval = 0
    /\ \E a \in CtorArgs : Constructed(a)
    /\ held = NoEvent
    /\ last = NoCall

ClientNext ==
    \/ PullCall
    \/ GetEventsCall
    \/ PublishCall
    \/ AcknowledgeCall
    \/ EventAckCall

ClientSpec == ClientInit /\ [][ClientNext]_vars

\* Another task of the same event loop (a second subscribe loop, the test's
\* body) runs one of its steps.  The loop runs one task at a time, so this
\* happens only while the subscribe task is suspended or has ended.
PeerStep ==
    /\ pc \in Suspended \cup Stopped
    /\ peerTick' = 1 - peerTick
    /\ UNCHANGED <<cli, cfg, loop, cancel, counts, iter, cobs, batch, acks>>

\* The steps the event loop runs on the task's behalf.
TaskStep ==
    \/ Start
    \/ Fetch
    \/ Dispatch
    \/ HandlerResume
    \/ Sleep
    \/ Tick
    \/ Wake
    \/ Except
    \/ CancelDeliver

Next ==
    \/ TaskStep
    \/ CancelRequest
    \/ PeerStep

Spec == Init /\ [][Next]_vars

\* The asyncio event loop runs every ready task and fires every due timer;
\* nothing obliges anyone to request cancellation.
FairSpec == Spec /\ WF_vars(TaskStep)

\* The same, with the event loop's ready queue: a task that is ready again
\* and again is run again and again.
SchedSpec == Spec /\ WF_vars(TaskStep) /\ SF_vars(PeerStep)

TypeOK ==
    /\ pc \in {"idle", "fetch", "for", "handler", "sleep", "except"} \cup Stopped
    /\ exit_on_error \in BOOLEAN
    /\ on_error \in {"None", "callback"}
    /\ polling_interval \in 0..MaxInterval
    /\ events \in Batches
    /\ event \in EventIds \cup {"none"}
    /\ remaining \in 0..MaxInterval
    /\ cancel \in {"none", "pending", "delivered"}
    /\ handlerCalls \in 0..MaxCount
    /\ failures \in 0..MaxCount
    /\ errCalls \in 0..MaxCount
    /\ iterHandler \in 0..MaxBatch
    /\ iterErr \in 0..1
    /\ iterFailed \in BOOLEAN
    /\ waits \in 0..1
    /\ slept \in 0..MaxInterval
    /\ lastFetch \in {"none", "fault", "non200", "empty", "events"}
    /\ allAbsent \in BOOLEAN
    /\ cancelAt \in {"none", "idle", "fetch", "for", "handler", "sleep", "except"}
    /\ pulledAfterCancel \in BOOLEAN
    /\ handlerAborted \in BOOLEAN
    /\ handlerAcks \subseteq EventIds
    /\ fetched \in Batches
    /\ dispatched \in Batches
    /\ acks \subseteq EventIds
    /\ peerTick \in 0..1

\* ------------------------------------------------------------------ claims

\* C1: for every get_events call that returns an event, the handler is
\* invoked exactly once before the next call is issued: when the loop is
\* back at the call after an answer with events, it has invoked the handler
\* once since.
C1_OneDispatchPerPull ==
    (pc = "fetch" /\ lastFetch = "events") => iterHandler = 1

\* C2: with exit_on_error, once an iteration has failed the loop does nothing
\* but handle that one error and return normally: no second failure, no
\* further call or handler invocation, and no exception leaving subscribe.
C2_ExitsAfterFirstFailure ==
    (exit_on_error /\ failures >= 1)
        => (failures = 1 /\ pc \in {"except", "returned"})

\* C3: with on_error set, on_error has been invoked once for every failing
\* iteration and for no other: outside the except clause the two counts
\* agree and the current iteration has one invocation if it failed and none
\* if it did not; inside it the invocation for this failure is still due.
C3_OnErrorOncePerFailure ==
    on_error # "None" =>
        /\ pc # "except" =>
              /\ errCalls = failures
              /\ iterErr = (IF iterFailed THEN 1 ELSE 0)
        /\ pc = "except" =>
              /\ iterFailed
              /\ iterErr = 0
              /\ (errCalls + 1 = failures \/ failures = MaxCount)

\* Two failing iterations were each reported once, and the iteration after
\* them, which did not fail, was not reported.
C3_Witness ==
    /\ on_error # "None"
    /\ errCalls = 2
    /\ failures = 2
    /\ pc = "sleep"
    /\ ~iterFailed
    /\ iterErr = 0

\* C4: an error raised by on_error never leaves subscribe.
C4_OnErrorFailureIsolated == pc # "raised"

\* C5: without exit_on_error the loop stops only by cancellation: it neither
\* returns nor raises.
C5_StopsOnlyByCancellation ==
    ~exit_on_error => pc \notin {"returned", "raised"}

\* C6: a requested cancellation always takes effect: once it is pending, it
\* is eventually raised in the loop, or the loop has stopped.
C6_CancelTakesEffect ==
    (cancel = "pending") ~> (cancel = "delivered" \/ pc \in Stopped)

\* C7, as claimed: cancelling during the wait halts the loop before the next
\* get_events call; cancelling while a handler is in flight lets that handler
\* finish and prevents a subsequent call.
C7_CancelLetsHandlerFinish ==
    /\ cancelAt = "sleep" => ~pulledAfterCancel
    /\ cancelAt = "handler" => (~handlerAborted /\ ~pulledAfterCancel)

\* C7, amended: cancelling during the wait halts the loop before the next
\* get_events call; cancelling while a handler is in flight does not let the
\* handler run on (CancelledError is raised at its await), and when the
\* handler lets that error through, subscribe ends cancelled with no
\* subsequent call.
C7_CancelInterruptsHandler ==
    /\ cancelAt = "sleep" => (~pulledAfterCancel /\ pc \in {"sleep", "cancelled"})
    /\ (cancelAt = "handler" /\ cancel = "pending") => pc = "handler"
    /\ (cancelAt = "handler" /\ handlerAborted)
          => (pc = "cancelled" /\ ~pulledAfterCancel)

\* A handler in flight was cancelled and the loop has ended cancelled.
C7_Witness ==
    /\ cancelAt = "handler"
    /\ handlerAborted
    /\ pc = "cancelled"
    /\ handlerCalls >= 1

C10_WaitBetweenPulls ==
    (pc = "fetch" /\ lastFetch # "none")
        => (waits = 1 /\ slept = polling_interval)

\* C11: client.pull(topic, subscription) ends by the status the server
\* answers: 204 gives absent and no error, 200 gives an Event, any other
\* status raises SailhouseError.
C11_PullByStatus ==
    last.op = "pull" =>
        /\ last.status = <<204>> => (last.raised = "none" /\ last.result = "absent")
        /\ last.status = <<200>> => (last.raised = "none" /\ last.result = "event")
        /\ last.status \notin {<<200>>, <<204>>} => last.raised = "SailhouseError"

\* C12: publish succeeds exactly when the status is 201 and otherwise
\* raises SailhouseError naming the status; either way the client's token,
\* timeout, base URL and Authorization header are as constructed.
C12_PublishByStatus ==
    /\ last.op = "publish" =>
          /\ last.sent = 1
          /\ last.raised = "none" <=> last.status = <<201>>
          /\ last.raised = "none" => last.result = "ok"
          /\ last.raised # "none" =>
                (last.raised = "SailhouseError" /\ last.errStatus = last.status)
    /\ token = ctor.token
    /\ timeout = ctor.timeout
    /\ base_url = (IF ctor.base_url = "None" THEN BASE_URL ELSE ctor.base_url)
    /\ auth = ctor.token

\* A publish answered 400 has raised, on a client built with its own base URL.
C12_Witness ==
    /\ last.op = "publish"
    /\ last.status = <<400>>
    /\ last.raised = "SailhouseError"
    /\ ctor.base_url # "None"
    /\ ctor.timeout = 30

\* C13: an acknowledge succeeds exactly when the status is 200 or 204 and
\* raises SailhouseError otherwise; Event.ack sends one acknowledge, for the
\* event's own id and the topic and subscription the event is tagged with.
C13_AcknowledgeByStatus ==
    /\ last.op \in {"acknowledge_message", "ack"} =>
          /\ last.sent = 1
          /\ last.raised = "none" <=> last.status \in {<<200>>, <<204>>}
          /\ last.raised # "none" => last.raised = "SailhouseError"
    /\ last.op = "ack" =>
          /\ held # NoEvent
          /\ last.id = held.id
          /\ last.topic = held.topic
          /\ last.subscription = held.subscription

\* event.ack() on an event got from ("other-topic", "other-sub") was
\* answered 204 and succeeded.
C13_Witness ==
    /\ last.op = "ack"
    /\ last.status = <<204>>
    /\ last.raised = "none"
    /\ held.topic = "other-topic"
    /\ held.subscription = "other-sub"
    /\ last.id = "2"

\* C19: every request a client sends goes to the base URL that client holds.
C19_RequestsGoToOwnBaseUrl ==
    last.sent = 1 => last.base = base_url

\* C14: dispatch is serialized: a handler is in flight only while the loop
\* is suspended in the await of that very handler, the last event handed
\* out; so never two at once, and never during a get_events call.
C14_SerializedDispatch ==
    /\ event # "none" => pc = "handler"
    /\ pc = "handler" =>
          /\ event # "none"
          /\ dispatched # <<>>
          /\ event = dispatched[Len(dispatched)]

\* The handler of event "1" is in flight while event "2" of the same answer
\* waits its turn.
C14_Witness ==
    /\ pc = "handler"
    /\ event = "1"
    /\ events = <<"2">>

\* C15: whatever this loop does, the other tasks of the event loop keep
\* running: another task runs infinitely often.
C15_PeerKeepsRunning ==
    /\ []<>(peerTick = 1)
    /\ []<>(peerTick = 0)

\* C16: the step out of the except clause is the same whether the fetch or
\* the handler raised: it is fixed by on_error and exit_on_error alone.
\* on_error is invoked once if set and never otherwise; the loop then
\* returns if exit_on_error and goes back to the fetch if not, without
\* waiting (or the error on_error raised leaves subscribe).
C16_OriginMakesNoDifference ==
    [][(pc = "except" /\ pc' # "except") =>
          /\ errCalls' = (IF on_error # "None" THEN Inc(errCalls) ELSE errCalls)
          /\ iterErr' = (IF on_error # "None" THEN 1 ELSE 0)
          /\ pc' \in {IF exit_on_error THEN "returned" ELSE "fetch"}
                        \cup (IF on_error # "None" THEN {"raised"} ELSE {})
          /\ UNCHANGED <<remaining, waits, slept, events, failures>>]_vars

\* A handler's error, reported once, has made the loop return.
C16_Witness ==
    /\ pc = "returned"
    /\ lastFetch = "events"
    /\ iterFailed
    /\ on_error # "None"
    /\ errCalls = 1
    /\ failures = 1

\* C17: an acknowledge is sent only for the event being dispatched, and only
\* by a handler that acknowledges it; and an iteration takes nothing over
\* from the one before: no handler is in flight at the fetch, and what is
\* dispatched after it is the answer's own list, whatever was dispatched or
\* acknowledged before.
C17_LoopNeverAcknowledges ==
    [][/\ acks' # acks =>
             \E e \in handlerAcks :
                 /\ acks' = acks \cup {e}
                 /\ \/ pc = "for" /\ events # <<>> /\ e = Head(events)
                    \/ pc = "handler" /\ e = event
       /\ pc = "fetch" => event = "none"
       /\ (pc = "fetch" /\ pc' = "for") =>
             /\ events' = fetched'
             /\ dispatched' = <<>>
             /\ event' = "none"]_vars

\* Event "1", acknowledged in an earlier iteration, has been fetched again
\* and is about to be dispatched again.
C17_Witness ==
    /\ "1" \in acks
    /\ pc = "for"
    /\ fetched = <<"1">>
    /\ events = <<"1">>
    /\ dispatched = <<>>

\* C18: the events of one answer are handed to the handler one at a time in
\* the answer's order, and once the handler has raised, no further event of
\* that answer is dispatched: the loop is in the except clause, back at the
\* fetch, or has returned or raised, and the rest of the list stays
\* undispatched.
C18_BatchInOrder ==
    /\ fetched = dispatched \o events
    /\ Len(dispatched) = iterHandler
    /\ iterFailed => pc \in {"except", "fetch", "returned", "raised"}
    /\ pc = "returned" => (exit_on_error /\ iterFailed)

\* With exit_on_error the handler raised on the first of two events and the
\* loop returned; the second was never dispatched.
C18_Witness ==
    /\ exit_on_error
    /\ pc = "returned"
    /\ fetched = <<"2", "1">>
    /\ dispatched = <<"2">>
    /\ events = <<"1">>

====
